---- MODULE Spec2Model ----
(***************************************************************************)
(* A model of core/flag.py: the Flag execution element.  A Flag is built   *)
(* from (action, args, filters, uid) or from an XML element, is called     *)
(* with (data_in, accumulator), and is converted to and from JSON and XML. *)
(*                                                                         *)
(* Python values are records [k, n]:                                       *)
(*   k = "int"   the integer n                                             *)
(*   k = "str"   the decimal numeral of n when n >= 0, "abc" when n = -1   *)
(*   k = "ref"   the step reference "@<step n>"                            *)
(*   k = "bool"  True (n = 1) or False (n = 0)                             *)
(*   k = "none"  a key that is absent from a dict                          *)
(* A dict of keyword arguments is a function over Names whose absent keys  *)
(* map to Missing.                                                         *)
(***************************************************************************)
EXTENDS Integers, Sequences, FiniteSets, TLC

VARIABLES flag, last, call, nextUid, doc, copies, calls

vars == <<flag, last, call, nextUid, doc, copies, calls>>

(***************************************************************************)
(* Bounds                                                                  *)
(***************************************************************************)
MaxFilters == 2
MaxMint == 3
MaxCopies == 2
MaxWorkers == 2

(***************************************************************************)
(* Values                                                                  *)
(***************************************************************************)
I(n) == [k |-> "int", n |-> n]
S(n) == [k |-> "str", n |-> n]
Ref(n) == [k |-> "ref", n |-> n]
B(b) == [k |-> "bool", n |-> IF b THEN 1 ELSE 0]
Missing == [k |-> "none", n |-> 0]
False == B(FALSE)

Names == {"threshold", "strict", "bogus", "value"}
NameOrder == <<"threshold", "strict", "bogus", "value">>
EmptyDict == [x \in Names |-> Missing]
Keys(d) == {x \in Names : d[x] # Missing}

NoneAction == "<None>"
NoUid == 0

(***************************************************************************)
(* The Action Directory (core.helpers.get_flag_api / get_flag)             *)
(***************************************************************************)
FlagApis ==
  [gt  |-> [params |-> <<[name |-> "threshold", required |-> TRUE, default |-> Missing],
                         [name |-> "strict", required |-> FALSE, default |-> I(0)]>>,
            data_in |-> [name |-> "value", type |-> "integer"]],
   inv |-> [params |-> <<>>,
            data_in |-> [name |-> "value", type |-> "integer"]]]

KnownActions == DOMAIN FlagApis

\* get_flag_api(action): (args_api, data_in_api), or UnknownAction
get_flag_api(action) ==
  IF action \in KnownActions
    THEN [err |-> "none", args_api |-> FlagApis[action].params,
          data_in_api |-> FlagApis[action].data_in]
    ELSE [err |-> "UnknownAction", args_api |-> <<>>,
          data_in_api |-> [name |-> "value", type |-> "integer"]]

\* get_flag(action)(**kwargs): the action callable
ActionCallable(action, kw) ==
  IF action = "gt"
    THEN IF kw["threshold"].k = "int" /\ kw["value"].k = "int" /\ kw["strict"].k = "int"
           THEN [err |-> "none",
                 val |-> IF kw["strict"].n = 1
                           THEN B(kw["value"].n > kw["threshold"].n)
                           ELSE B(kw["value"].n >= kw["threshold"].n)]
           ELSE [err |-> "TypeError", val |-> Missing]
    ELSE IF kw["value"].k = "int" /\ kw["value"].n # 0
           THEN [err |-> "none", val |-> I(12 \div kw["value"].n)]
           ELSE [err |-> "ZeroDivisionError", val |-> Missing]

(***************************************************************************)
(* The Parameter Validator (core.validator)                                *)
(***************************************************************************)
\* validate_parameter(value, param_api, message_prefix)
validate_parameter(value, api) ==
  IF value.k = "int" THEN [err |-> "none", val |-> value]
  ELSE IF value.k = "str" /\ value.n >= 0 THEN [err |-> "none", val |-> I(value.n)]
  ELSE [err |-> "InvalidInput", val |-> Missing]

ApiNames(api) == {api[j].name : j \in DOMAIN api}

ApiOf(api, x) == api[CHOOSE j \in DOMAIN api : api[j].name = x]

\* one parameter of validate_flag_parameters
ValidateArg(api, args, x) ==
  IF x \notin ApiNames(api) THEN [err |-> "none", val |-> Missing]
  ELSE IF args[x] = Missing
    THEN IF ApiOf(api, x).default # Missing
           THEN [err |-> "none", val |-> ApiOf(api, x).default]
           ELSE IF ApiOf(api, x).required
                  THEN [err |-> "InvalidParameters", val |-> Missing]
                  ELSE [err |-> "none", val |-> Missing]
  ELSE IF args[x].k = "ref" THEN [err |-> "none", val |-> args[x]]
  ELSE IF validate_parameter(args[x], ApiOf(api, x)).err = "none"
    THEN validate_parameter(args[x], ApiOf(api, x))
    ELSE [err |-> "InvalidParameters", val |-> Missing]

\* validate_flag_parameters(api, args, action)
validate_flag_parameters(api, args) ==
  IF \/ Keys(args) \ ApiNames(api) # {}
     \/ \E x \in Names : ValidateArg(api, args, x).err # "none"
    THEN [err |-> "InvalidParameters", val |-> EmptyDict]
    ELSE [err |-> "none", val |-> [x \in Names |-> ValidateArg(api, args, x).val]]

(***************************************************************************)
(* Filters (core.filter.Filter)                                            *)
(***************************************************************************)
\* addOne: data + 1 and double: data * 2, raising unless data is an integer;
\* addStep: data + accumulator[1], the sum of two integers or the
\* concatenation of two strings (the accumulator's string being "abc" or a
\* one-digit numeral), raising on any other pair of operands
FilterKinds == {"addOne", "double", "addStep"}

\* filter_element(data, accumulator)
FilterCall(kind, data, accumulator) ==
  IF kind = "addOne" /\ data.k = "int" THEN [err |-> "none", val |-> I(data.n + 1)]
  ELSE IF kind = "double" /\ data.k = "int" THEN [err |-> "none", val |-> I(2 * data.n)]
  ELSE IF kind = "addStep" /\ data.k = "int" /\ accumulator[1].k = "int"
    THEN [err |-> "none", val |-> I(data.n + accumulator[1].n)]
  ELSE IF kind = "addStep" /\ data.k = "str" /\ accumulator[1].k = "str"
    THEN [err |-> "none",
          val |-> IF data.n = -1 \/ accumulator[1].n = -1
                    THEN S(-1)
                    ELSE S(10 * data.n + accumulator[1].n)]
  ELSE [err |-> "FilterError", val |-> data]

RECURSIVE SeqsUpTo(_, _)
SeqsUpTo(T, n) ==
  IF n = 0 THEN {<<>>}
  ELSE SeqsUpTo(T, n - 1) \cup
       {Append(s, t) : s \in {q \in SeqsUpTo(T, n - 1) : Len(q) = n - 1}, t \in T}

FilterChains == SeqsUpTo(FilterKinds, MaxFilters)

(***************************************************************************)
(* Flag.__init__ and Flag._from_xml                                        *)
(***************************************************************************)
NoFlag == [uid |-> NoUid, action |-> NoneAction, args |-> EmptyDict, filters |-> <<>>]

\* ExecutionElement.__init__(self, name, uid): uid minted when None
ExecutionElementInit(uid, fresh) == IF uid = NoUid THEN fresh ELSE uid

Minted(uid) == IF uid = NoUid THEN 1 ELSE 0

\* FlagInit storing args as given, without validate_flag_parameters
FlagInit_Unvalidated(action, args, filters, uid, fresh) ==
  IF action = NoneAction
    THEN [err |-> "InvalidElementConstructed", self |-> NoFlag, minted |-> 0]
  ELSE IF get_flag_api(action).err # "none"
    THEN [err |-> get_flag_api(action).err,
          self |-> [NoFlag EXCEPT !.uid = ExecutionElementInit(uid, fresh), !.action = action],
          minted |-> Minted(uid)]
  ELSE [err |-> "none",
        self |-> [uid |-> ExecutionElementInit(uid, fresh),
                  action |-> action,
                  args |-> args,
                  filters |-> filters],
        minted |-> Minted(uid)]

\* Flag.__init__(action, None, args, filters, uid)
FlagInit(action, args, filters, uid, fresh) ==
  IF action = NoneAction
    THEN [err |-> "InvalidElementConstructed", self |-> NoFlag, minted |-> 0]
  ELSE IF get_flag_api(action).err # "none"
    THEN [err |-> get_flag_api(action).err,
          self |-> [NoFlag EXCEPT !.uid = ExecutionElementInit(uid, fresh), !.action = action],
          minted |-> Minted(uid)]
  ELSE IF validate_flag_parameters(get_flag_api(action).args_api, args).err # "none"
    THEN [err |-> validate_flag_parameters(get_flag_api(action).args_api, args).err,
          self |-> [NoFlag EXCEPT !.uid = ExecutionElementInit(uid, fresh), !.action = action],
          minted |-> Minted(uid)]
  ELSE [err |-> "none",
        self |-> [uid |-> ExecutionElementInit(uid, fresh),
                  action |-> action,
                  args |-> validate_flag_parameters(get_flag_api(action).args_api, args).val,
                  filters |-> filters],
        minted |-> Minted(uid)]


(***************************************************************************)
(* Transport documents.  One record shape serves both forms: form is       *)
(* "json" or "xml", uid = NoUid is a document without the "uid" key,       *)
(* hasArgs tells whether the <args> child exists, args is the list of      *)
(* name/value entries and filters the list of filter documents.            *)
(***************************************************************************)
NoDoc == [form |-> "none", uid |-> NoUid, action |-> NoneAction, hasArgs |-> FALSE,
          args |-> <<>>, filters |-> <<>>]

\* Filter.as_json / Filter.to_xml and Filter.from_json / Filter(xml=...)
FilterToDoc(kind) == [action |-> kind]
FilterFromDoc(d) == d.action

\* dict.items() in insertion order
RECURSIVE ItemsFrom(_, _)
ItemsFrom(d, j) ==
  IF j > Len(NameOrder) THEN <<>>
  ELSE IF d[NameOrder[j]] = Missing THEN ItemsFrom(d, j + 1)
  ELSE <<[name |-> NameOrder[j], value |-> d[NameOrder[j]]]>> \o ItemsFrom(d, j + 1)

Items(d) == ItemsFrom(d, 1)

\* {entry.name: entry.value for entry in entries}: a later entry overwrites
RECURSIVE DictOf(_)
DictOf(entries) ==
  IF entries = <<>> THEN EmptyDict
  ELSE [DictOf(SubSeq(entries, 1, Len(entries) - 1))
          EXCEPT ![entries[Len(entries)].name] = entries[Len(entries)].value]

\* str(value), the text of an XML element
Str(v) == IF v.k = "int" THEN S(v.n) ELSE v

\* inputs_to_xml(args, root='args')
inputs_to_xml(d) == [j \in 1..Len(Items(d)) |->
                       [name |-> Items(d)[j].name, value |-> Str(Items(d)[j].value)]]

\* inputs_xml_to_dict(args_xml)
inputs_xml_to_dict(entries) == DictOf(entries)

\* Flag.as_json
as_json(f) ==
  [form |-> "json", uid |-> f.uid, action |-> f.action, hasArgs |-> TRUE,
   args |-> Items(f.args),
   filters |-> [j \in 1..Len(f.filters) |-> FilterToDoc(f.filters[j])]]

\* to_xml appending the filters in reverse order
to_xml_Reversed(f) ==
  [form |-> "xml", uid |-> NoUid, action |-> f.action,
   hasArgs |-> (Keys(f.args) # {}),
   args |-> IF Keys(f.args) # {} THEN inputs_to_xml(f.args) ELSE <<>>,
   filters |-> [j \in 1..Len(f.filters) |->
                  FilterToDoc(f.filters[Len(f.filters) + 1 - j])]]

\* Flag.to_xml
to_xml(f) ==
  [form |-> "xml", uid |-> NoUid, action |-> f.action,
   hasArgs |-> (Keys(f.args) # {}),
   args |-> IF Keys(f.args) # {} THEN inputs_to_xml(f.args) ELSE <<>>,
   filters |-> [j \in 1..Len(f.filters) |-> FilterToDoc(f.filters[j])]]

\* from_json minting a uid whether or not the document has one
from_json_AlwaysMint(json_in, fresh) ==
  [FlagInit(json_in.action,
            DictOf(json_in.args),
            [j \in 1..Len(json_in.filters) |-> FilterFromDoc(json_in.filters[j])],
            fresh,
            fresh)
     EXCEPT !.minted = 1]

\* Flag.from_json
from_json(json_in, fresh) ==
  [FlagInit(json_in.action,
            DictOf(json_in.args),
            [j \in 1..Len(json_in.filters) |-> FilterFromDoc(json_in.filters[j])],
            IF json_in.uid # NoUid THEN json_in.uid ELSE fresh,
            fresh)
     EXCEPT !.minted = IF json_in.uid # NoUid THEN 0 ELSE 1]

\* Flag._from_xml, reached from Flag.__init__(xml=xml_element)
from_xml(xml_element, fresh) ==
  IF get_flag_api(xml_element.action).err # "none"
    THEN [err |-> get_flag_api(xml_element.action).err,
          self |-> [NoFlag EXCEPT !.uid = fresh, !.action = xml_element.action],
          minted |-> 1]
  ELSE IF validate_flag_parameters(
            get_flag_api(xml_element.action).args_api,
            IF xml_element.hasArgs THEN inputs_xml_to_dict(xml_element.args)
                                   ELSE EmptyDict).err # "none"
    THEN [err |-> "InvalidParameters",
          self |-> [NoFlag EXCEPT !.uid = fresh, !.action = xml_element.action],
          minted |-> 1]
  ELSE [err |-> "none",
        self |-> [uid |-> fresh,
                  action |-> xml_element.action,
                  args |-> validate_flag_parameters(
                             get_flag_api(xml_element.action).args_api,
                             IF xml_element.hasArgs
                               THEN inputs_xml_to_dict(xml_element.args)
                               ELSE EmptyDict).val,
                  filters |-> [j \in 1..Len(xml_element.filters) |->
                                 FilterFromDoc(xml_element.filters[j])]],
        minted |-> 1]

(***************************************************************************)
(* Inputs                                                                  *)
(***************************************************************************)
ActionChoices == {NoneAction, "nope", "gt", "inv"}

ArgChoices ==
  {EmptyDict,
   [EmptyDict EXCEPT !["threshold"] = I(5)],
   [EmptyDict EXCEPT !["threshold"] = S(5)],
   [EmptyDict EXCEPT !["threshold"] = S(-1)],
   [EmptyDict EXCEPT !["threshold"] = Ref(1)],
   [EmptyDict EXCEPT !["threshold"] = I(5), !["strict"] = I(1)],
   [EmptyDict EXCEPT !["threshold"] = I(5), !["bogus"] = I(1)]}

UidChoices == {NoUid, 101}

DataChoices == {I(0), I(3), S(3), S(-1)}

RefIds == {1}

AccumulatorChoices == [RefIds -> {Missing, I(1), I(5), S(-1)}]


XmlArgChoices ==
  {<<>>,
   <<[name |-> "threshold", value |-> S(5)]>>,
   <<[name |-> "threshold", value |-> S(-1)]>>,
   <<[name |-> "threshold", value |-> Ref(1)]>>,
   <<[name |-> "threshold", value |-> S(5)], [name |-> "strict", value |-> S(1)]>>}

(***************************************************************************)
(* State                                                                   *)
(*   flag     the one Flag the caller builds and then uses (NoFlag: none   *)
(*            yet, or the constructor raised)                              *)
(*   last     the last construction: its path, inputs and error            *)
(*   call     the invocation flag(data_in, accumulator) in progress        *)
(*   nextUid  the next value of uuid.uuid4().hex                           *)
(*   doc      the transport document last written                          *)
(*   copies   the Flags read back from doc, each with the "uid" its source *)
(*            document carried (src, NoUid when it carried none)           *)
(*   calls    the invocations that several workers make of the same Flag,  *)
(*            each with the number of invocations that had ended when it   *)
(*            was entered (after)                                          *)
(***************************************************************************)
NoLast == [path |-> "none", action |-> NoneAction, args |-> EmptyDict,
           uid |-> NoUid, err |-> "none"]

IdleCall == [pc |-> "idle", i |-> 0, data_in |-> Missing,
             accumulator |-> [r \in RefIds |-> Missing], data |-> Missing,
             args |-> EmptyDict, trace |-> <<>>, result |-> Missing,
             exc |-> "none", handler |-> "none", ret |-> Missing]

Workers == 1..MaxWorkers

IdleCalls == [w \in Workers |-> [c |-> IdleCall, after |-> 0]]

Init ==
  /\ flag = NoFlag
  /\ last = NoLast
  /\ call = IdleCall
  /\ nextUid = 1
  /\ doc = NoDoc
  /\ copies = <<>>
  /\ calls = IdleCalls

Quiet == call.pc \in {"idle", "returned", "raised"}

\* the caller's  flag = Flag(action=..., args=..., filters=..., uid=...)
Construct ==
  \E action \in ActionChoices, args \in ArgChoices, filters \in FilterChains,
     uid \in UidChoices :
    LET r == FlagInit(action, args, filters, uid, nextUid) IN
    /\ flag = NoFlag
    /\ nextUid + r.minted <= MaxMint + 1
    /\ flag' = IF r.err = "none" THEN r.self ELSE NoFlag
    /\ last' = [path |-> "init", action |-> action, args |-> args, uid |-> uid,
                err |-> r.err]
    /\ nextUid' = nextUid + r.minted
    /\ call' = IdleCall
    /\ doc' = NoDoc
    /\ copies' = <<>>
    /\ UNCHANGED calls

\* the caller's  flag = Flag(xml=xml_element)
ConstructXml ==
  \E action \in ActionChoices, entries \in XmlArgChoices, hasArgs \in BOOLEAN,
     filters \in FilterChains :
    LET xml_element == [form |-> "xml", uid |-> NoUid, action |-> action,
                        hasArgs |-> hasArgs,
                        args |-> IF hasArgs THEN entries ELSE <<>>,
                        filters |-> [j \in 1..Len(filters) |-> FilterToDoc(filters[j])]]
        r == from_xml(xml_element, nextUid) IN
    /\ flag = NoFlag
    /\ hasArgs \/ entries = <<>>
    /\ nextUid + r.minted <= MaxMint + 1
    /\ flag' = IF r.err = "none" THEN r.self ELSE NoFlag
    /\ last' = [path |-> "xml", action |-> action,
                args |-> IF hasArgs THEN inputs_xml_to_dict(entries) ELSE EmptyDict,
                uid |-> NoUid, err |-> r.err]
    /\ nextUid' = nextUid + r.minted
    /\ call' = IdleCall
    /\ doc' = NoDoc
    /\ copies' = <<>>
    /\ UNCHANGED calls


(***************************************************************************)
(* Flag.__call__(data_in, accumulator), one action per statement           *)
(***************************************************************************)
\* dereference_step_routing(self.args, accumulator, message_prefix)
dereference_step_routing(args, accumulator) ==
  IF \E x \in Names : args[x].k = "ref" /\ accumulator[args[x].n] = Missing
    THEN [err |-> "ResolutionFailed", val |-> EmptyDict]
    ELSE [err |-> "none",
          val |-> [x \in Names |-> IF args[x].k = "ref" THEN accumulator[args[x].n]
                                                        ELSE args[x]]]

\* the two except clauses: callbacks.FlagError.send(self); return False
Except(c, e) ==
  [c EXCEPT !.pc = "returned",
            !.exc = e,
            !.handler = IF e = "InvalidInput" THEN "InvalidInput" ELSE "Exception",
            !.trace = Append(c.trace, "FlagError"),
            !.result = False]

\* entry: data = data_in
Enter(f, data_in, accumulator) ==
  [IdleCall EXCEPT !.pc = IF f.filters = <<>> THEN "validate" ELSE "filters",
                   !.i = 1,
                   !.data_in = data_in,
                   !.accumulator = accumulator,
                   !.data = data_in]

\* data = filter_element(data, accumulator), for the filter at c.i
FilterStmt(f, c) ==
  LET r == FilterCall(f.filters[c.i], c.data, c.accumulator) IN
  IF r.err # "none"
    THEN [c EXCEPT !.pc = "raised", !.exc = r.err]
    ELSE [c EXCEPT !.data = r.val,
                   !.i = c.i + 1,
                   !.pc = IF c.i = Len(f.filters) THEN "validate" ELSE "filters"]

\* data = validate_parameter(data, self.data_in_api, ...)
ValidateStmt(f, c) ==
  LET r == validate_parameter(c.data, get_flag_api(f.action).data_in_api) IN
  IF r.err # "none" THEN Except(c, r.err)
                    ELSE [c EXCEPT !.data = r.val, !.pc = "dereference"]

\* args = dereference_step_routing(self.args, accumulator, ...)
DereferenceStmt(f, c) ==
  LET r == dereference_step_routing(f.args, c.accumulator) IN
  IF r.err # "none" THEN Except(c, r.err)
                    ELSE [c EXCEPT !.args = r.val, !.pc = "FlagSuccess"]

\* callbacks.FlagSuccess.send(self)
SuccessStmt(f, c) ==
  [c EXCEPT !.trace = Append(c.trace, "FlagSuccess"), !.pc = "update"]

\* args.update({self.data_in_api['name']: data})
UpdateStmt(f, c) ==
  [c EXCEPT !.args[get_flag_api(f.action).data_in_api.name] = c.data, !.pc = "action"]

\* return get_flag(self.action)(**args)
ActionStmt(f, c) ==
  LET r == ActionCallable(f.action, c.args)
      d == [c EXCEPT !.trace = Append(c.trace, "action")] IN
  IF r.err # "none" THEN Except(d, r.err)
                    ELSE [d EXCEPT !.ret = r.val, !.result = r.val, !.pc = "returned"]

Running == {"filters", "validate", "dereference", "FlagSuccess", "update", "action"}

\* the statement the invocation c of the Flag f is at
Statement(f, c) ==
  CASE c.pc = "filters" -> FilterStmt(f, c)
    [] c.pc = "validate" -> ValidateStmt(f, c)
    [] c.pc = "dereference" -> DereferenceStmt(f, c)
    [] c.pc = "FlagSuccess" -> SuccessStmt(f, c)
    [] c.pc = "update" -> UpdateStmt(f, c)
    [] c.pc = "action" -> ActionStmt(f, c)
    [] OTHER -> c

\* the caller's  flag(data_in, accumulator)
Invoke ==
  \E data_in \in DataChoices, accumulator \in AccumulatorChoices :
    /\ flag # NoFlag
    /\ Quiet
    /\ call' = Enter(flag, data_in, accumulator)
    /\ UNCHANGED <<flag, last, nextUid, doc, copies, calls>>

\* ApplyFilter handing every filter data_in instead of the running data
ApplyFilter_OnInput ==
  LET r == FilterCall(flag.filters[call.i], call.data_in, call.accumulator) IN
  /\ call.pc = "filters"
  /\ call' = IF r.err # "none"
               THEN [call EXCEPT !.pc = "raised", !.exc = r.err]
               ELSE [call EXCEPT !.data = r.val,
                                 !.i = call.i + 1,
                                 !.pc = IF call.i = Len(flag.filters) THEN "validate"
                                                                      ELSE "filters"]
  /\ UNCHANGED <<flag, last, nextUid, doc, copies, calls>>

\* for filter_element in self.filters: data = filter_element(data, accumulator)
ApplyFilter ==
  /\ call.pc = "filters"
  /\ call' = FilterStmt(flag, call)
  /\ UNCHANGED <<flag, last, nextUid, doc, copies, calls>>

\* Validate going on with the unvalidated data when validation fails
Validate_Ignored ==
  LET r == validate_parameter(call.data, get_flag_api(flag.action).data_in_api) IN
  /\ call.pc = "validate"
  /\ call' = IF r.err # "none" THEN [call EXCEPT !.pc = "dereference"]
                               ELSE [call EXCEPT !.data = r.val, !.pc = "dereference"]
  /\ UNCHANGED <<flag, last, nextUid, doc, copies, calls>>

\* data = validate_parameter(data, self.data_in_api, ...)
Validate ==
  /\ call.pc = "validate"
  /\ call' = ValidateStmt(flag, call)
  /\ UNCHANGED <<flag, last, nextUid, doc, copies, calls>>

\* Dereference going on with the unresolved self.args when resolution fails
Dereference_Unresolved ==
  LET r == dereference_step_routing(flag.args, call.accumulator) IN
  /\ call.pc = "dereference"
  /\ call' = IF r.err # "none" THEN [call EXCEPT !.args = flag.args, !.pc = "FlagSuccess"]
                               ELSE [call EXCEPT !.args = r.val, !.pc = "FlagSuccess"]
  /\ UNCHANGED <<flag, last, nextUid, doc, copies, calls>>

\* Dereference merging the primary input at once, ahead of the success event
Dereference_ThenMerge ==
  /\ call.pc = "dereference"
  /\ call' = IF DereferenceStmt(flag, call).pc = "FlagSuccess"
               THEN [UpdateStmt(flag, DereferenceStmt(flag, call)) EXCEPT !.pc = "FlagSuccess"]
               ELSE DereferenceStmt(flag, call)
  /\ UNCHANGED <<flag, last, nextUid, doc, copies, calls>>

\* args = dereference_step_routing(self.args, accumulator, ...)
Dereference ==
  /\ call.pc = "dereference"
  /\ call' = DereferenceStmt(flag, call)
  /\ UNCHANGED <<flag, last, nextUid, doc, copies, calls>>

\* SendSuccess with the send left out
SendSuccess_Silent ==
  /\ call.pc = "FlagSuccess"
  /\ call' = [call EXCEPT !.pc = "update"]
  /\ UNCHANGED <<flag, last, nextUid, doc, copies, calls>>

\* callbacks.FlagSuccess.send(self)
SendSuccess ==
  /\ call.pc = "FlagSuccess"
  /\ call' = SuccessStmt(flag, call)
  /\ UNCHANGED <<flag, last, nextUid, doc, copies, calls>>

\* Update merging data_in instead of the validated data
Update_Raw ==
  /\ call.pc = "update"
  /\ call' = [call EXCEPT !.args[get_flag_api(flag.action).data_in_api.name] = call.data_in,
                          !.pc = "action"]
  /\ UNCHANGED <<flag, last, nextUid, doc, copies, calls>>

\* Update written as self.args.update(...): the merge lands in the Flag
Update_Self ==
  /\ call.pc = "update"
  /\ call' = UpdateStmt(flag, call)
  /\ flag' = [flag EXCEPT !.args[get_flag_api(flag.action).data_in_api.name] = call.data]
  /\ UNCHANGED <<last, nextUid, doc, copies, calls>>

\* args.update({self.data_in_api['name']: data})
Update ==
  /\ call.pc = "update"
  /\ call' = UpdateStmt(flag, call)
  /\ UNCHANGED <<flag, last, nextUid, doc, copies, calls>>

\* CallAction sending FlagSuccess once more after the action has returned
CallAction_SuccessAfter ==
  /\ call.pc = "action"
  /\ call' = IF ActionStmt(flag, call).exc = "none"
               THEN [ActionStmt(flag, call) EXCEPT
                       !.trace = Append(ActionStmt(flag, call).trace, "FlagSuccess")]
               ELSE ActionStmt(flag, call)
  /\ UNCHANGED <<flag, last, nextUid, doc, copies, calls>>

\* CallAction taking a False result of the action for a failure
CallAction_FalseIsFailure ==
  /\ call.pc = "action"
  /\ call' = IF ActionStmt(flag, call).exc = "none" /\ ActionStmt(flag, call).result = False
               THEN [ActionStmt(flag, call) EXCEPT
                       !.trace = Append(ActionStmt(flag, call).trace, "FlagError")]
               ELSE ActionStmt(flag, call)
  /\ UNCHANGED <<flag, last, nextUid, doc, copies, calls>>

\* return get_flag(self.action)(**args)
CallAction ==
  /\ call.pc = "action"
  /\ call' = ActionStmt(flag, call)
  /\ UNCHANGED <<flag, last, nextUid, doc, copies, calls>>

(***************************************************************************)
(* Serialization                                                           *)
(***************************************************************************)
\* doc = flag.as_json()
AsJson ==
  /\ flag # NoFlag
  /\ doc' = as_json(flag)
  /\ copies' = <<>>
  /\ UNCHANGED <<flag, last, call, nextUid, calls>>

\* doc = flag.to_xml()
ToXml ==
  /\ flag # NoFlag
  /\ doc' = to_xml(flag)
  /\ copies' = <<>>
  /\ UNCHANGED <<flag, last, call, nextUid, calls>>

\* Flag.from_json(doc), the document read with or without its "uid" key
FromJson ==
  \E keepUid \in BOOLEAN :
    LET json_in == IF keepUid THEN doc ELSE [doc EXCEPT !.uid = NoUid]
        r == from_json(json_in, nextUid) IN
    /\ doc.form = "json"
    /\ Len(copies) < MaxCopies
    /\ nextUid + r.minted <= MaxMint + 1
    /\ copies' = IF r.err = "none"
                  THEN Append(copies, [self |-> r.self, src |-> json_in.uid])
                  ELSE copies
    /\ last' = [path |-> "from_json", action |-> json_in.action,
                args |-> DictOf(json_in.args), uid |-> json_in.uid, err |-> r.err]
    /\ nextUid' = nextUid + r.minted
    /\ UNCHANGED <<flag, call, doc, calls>>

\* Flag(xml=doc)
FromXml ==
  LET r == from_xml(doc, nextUid) IN
  /\ doc.form = "xml"
  /\ Len(copies) < MaxCopies
  /\ nextUid + r.minted <= MaxMint + 1
  /\ copies' = IF r.err = "none"
                THEN Append(copies, [self |-> r.self, src |-> doc.uid])
                ELSE copies
  /\ last' = [path |-> "from_xml", action |-> doc.action,
              args |-> IF doc.hasArgs THEN inputs_xml_to_dict(doc.args) ELSE EmptyDict,
              uid |-> NoUid, err |-> r.err]
  /\ nextUid' = nextUid + r.minted
  /\ UNCHANGED <<flag, call, doc, calls>>

(***************************************************************************)
(* Several workers calling the same Flag.  The Flag is built first, each   *)
(* worker then makes one call with its own data_in and accumulator, and    *)
(* the statements of the calls interleave.                                 *)
(***************************************************************************)
ConcBuilds ==
  {[action |-> "gt",
    args |-> [EmptyDict EXCEPT !["threshold"] = Ref(1), !["strict"] = I(1)],
    filters |-> <<"addOne">>],
   [action |-> "gt",
    args |-> [EmptyDict EXCEPT !["threshold"] = I(5)],
    filters |-> <<>>],
   [action |-> "inv",
    args |-> EmptyDict,
    filters |-> <<"double">>]}

ConcData == {I(0), I(3), S(-1)}

ConcAccumulators == [RefIds -> {Missing, I(1), I(5)}]

InitConc ==
  \E b \in ConcBuilds :
    /\ flag = FlagInit(b.action, b.args, b.filters, 101, 1).self
    /\ last = [path |-> "init", action |-> b.action, args |-> b.args, uid |-> 101,
               err |-> FlagInit(b.action, b.args, b.filters, 101, 1).err]
    /\ call = IdleCall
    /\ nextUid = 1
    /\ doc = NoDoc
    /\ copies = <<>>
    /\ calls = IdleCalls

NEnded == Cardinality({w \in Workers : calls[w].c.pc \in {"returned", "raised"}})

\* worker w enters flag(data_in, accumulator)
WorkerEnter(w) ==
  \E data_in \in ConcData, accumulator \in ConcAccumulators :
    /\ calls[w].c.pc = "idle"
    /\ calls' = [calls EXCEPT ![w] = [c |-> Enter(flag, data_in, accumulator),
                                      after |-> NEnded]]
    /\ UNCHANGED <<flag, last, call, nextUid, doc, copies>>

\* WorkerStep keeping data on the Flag: every call in progress sees the
\* data the last statement left
WorkerStep_SharedData(w) ==
  /\ calls[w].c.pc \in Running
  /\ calls' = [x \in Workers |->
                IF x = w THEN [calls[x] EXCEPT !.c = Statement(flag, calls[w].c)]
                ELSE IF calls[x].c.pc \in Running
                  THEN [calls[x] EXCEPT !.c.data = Statement(flag, calls[w].c).data]
                  ELSE calls[x]]
  /\ UNCHANGED <<flag, last, call, nextUid, doc, copies>>

\* WorkerStep storing the resolved arguments in self.args
WorkerStep_Cached(w) ==
  /\ calls[w].c.pc \in Running
  /\ calls' = [calls EXCEPT ![w].c = Statement(flag, calls[w].c)]
  /\ flag' = IF calls[w].c.pc = "dereference"
                  /\ Statement(flag, calls[w].c).pc = "FlagSuccess"
               THEN [flag EXCEPT !.args = Statement(flag, calls[w].c).args]
               ELSE flag
  /\ UNCHANGED <<last, call, nextUid, doc, copies>>

\* worker w executes the statement its call is at
WorkerStep(w) ==
  /\ calls[w].c.pc \in Running
  /\ calls' = [calls EXCEPT ![w].c = Statement(flag, calls[w].c)]
  /\ UNCHANGED <<flag, last, call, nextUid, doc, copies>>

(***************************************************************************)
(* Specifications                                                          *)
(***************************************************************************)
Next ==
  \/ Construct
  \/ ConstructXml
  \/ Invoke
  \/ ApplyFilter
  \/ Validate
  \/ Dereference
  \/ SendSuccess
  \/ Update
  \/ CallAction

Spec == Init /\ [][Next]_vars

NextSer ==
  \/ Construct
  \/ ConstructXml
  \/ AsJson
  \/ ToXml
  \/ FromJson
  \/ FromXml

SpecSer == Init /\ [][NextSer]_vars

NextConc ==
  \/ \E w \in Workers : WorkerEnter(w)
  \/ \E w \in Workers : WorkerStep(w)

SpecConc == InitConc /\ [][NextConc]_vars

TypeOK ==
  /\ call.pc \in {"idle", "filters", "validate", "dereference", "FlagSuccess",
                  "update", "action", "returned", "raised"}
  /\ Len(flag.filters) <= MaxFilters
  /\ Len(copies) <= MaxCopies
  /\ nextUid <= MaxMint + 1


(***************************************************************************)
(* What one invocation should compute, from its inputs alone               *)
(***************************************************************************)
\* the filter loop as a left fold: the first error ends it
RECURSIVE ApplyFilters(_, _, _)
ApplyFilters(filters, data, accumulator) ==
  IF filters = <<>> THEN [err |-> "none", val |-> data]
  ELSE LET r == ApplyFilters(SubSeq(filters, 1, Len(filters) - 1), data, accumulator) IN
       IF r.err # "none" THEN r
       ELSE FilterCall(filters[Len(filters)], r.val, accumulator)

Events(c) == SelectSeq(c.trace, LAMBDA e : e # "action")
NCalls(c) == Len(SelectSeq(c.trace, LAMBDA e : e = "action"))

Filtered == ApplyFilters(flag.filters, call.data_in, call.accumulator)
Validated == validate_parameter(Filtered.val, get_flag_api(flag.action).data_in_api)
Resolved == dereference_step_routing(flag.args, call.accumulator)
Merged == [Resolved.val EXCEPT ![get_flag_api(flag.action).data_in_api.name] = Validated.val]
Outcome == ActionCallable(flag.action, Merged)

Started == call.pc # "idle"
Ended == call.pc \in {"returned", "raised"}
InputOk == Started /\ Filtered.err = "none" /\ Validated.err = "none"
AbsentReference ==
  \E x \in Names : flag.args[x].k = "ref" /\ call.accumulator[flag.args[x].n] = Missing

(***************************************************************************)
(* C1: invoke never raises past its own boundary: whatever the input, the  *)
(* context, the filter chain (a raising filter included) and the action,   *)
(* a call ends by returning the action's result or False, never by         *)
(* propagating an exception.                                               *)
(***************************************************************************)
C1_InvokeNeverRaises == call.pc # "raised"

(***************************************************************************)
(* C2: when the filtered value fails the primary-input schema, invoke      *)
(* returns False, emits one failure event, and the action callable is      *)
(* never called in that invocation.                                        *)
(***************************************************************************)
C2_InvalidInputIsSoft ==
  (Started /\ Filtered.err = "none" /\ Validated.err # "none")
    => /\ NCalls(call) = 0
       /\ Ended => /\ call.pc = "returned"
                   /\ call.result = False
                   /\ Events(call) = <<"FlagError">>

C2_Witness ==
  /\ call.pc = "returned"
  /\ Filtered.err = "none"
  /\ Validated.err # "none"
  /\ Len(flag.filters) > 0

(***************************************************************************)
(* C3: when the filtered input passes the schema and every argument        *)
(* resolves, the action callable is called exactly once, with the resolved *)
(* arguments merged with {primary input name: validated value}, and what   *)
(* it returns is returned unmodified.                                      *)
(***************************************************************************)
C3_CalledOnceWithMerged ==
  (InputOk /\ Resolved.err = "none" /\ Ended)
    => /\ call.pc = "returned"
       /\ NCalls(call) = 1
       /\ call.args = Merged
       /\ Outcome.err = "none" => call.result = Outcome.val

C3_Witness ==
  /\ call.pc = "returned"
  /\ InputOk
  /\ Resolved.err = "none"
  /\ Outcome.err = "none"
  /\ call.data_in.k = "str"
  /\ \E x \in Names : flag.args[x].k = "ref"

(***************************************************************************)
(* C4: when resolution meets an argument that references a step absent     *)
(* from the context, it fails as a whole: the action callable is never     *)
(* called in that invocation, one failure event is emitted and invoke      *)
(* returns False.                                                          *)
(***************************************************************************)
C4_AbsentReferenceIsSoft ==
  (InputOk /\ AbsentReference)
    => /\ NCalls(call) = 0
       /\ call.args = EmptyDict
       /\ Ended => /\ call.pc = "returned"
                   /\ call.result = False
                   /\ Events(call) = <<"FlagError">>

C4_Witness ==
  /\ call.pc = "returned"
  /\ InputOk
  /\ AbsentReference

(***************************************************************************)
(* C5: the success event is emitted before the action callable is called,  *)
(* never after it; an invocation that passes every check and whose action  *)
(* callable raises emits the success event, then the failure event, and    *)
(* returns False.                                                          *)
(***************************************************************************)
C5_SuccessBeforeAction ==
  /\ \A j \in 1..Len(call.trace) :
       /\ call.trace[j] = "action"
            => \E h \in 1..(j - 1) : call.trace[h] = "FlagSuccess"
       /\ call.trace[j] = "FlagSuccess"
            => \A h \in 1..(j - 1) : call.trace[h] # "action"
  /\ (InputOk /\ Resolved.err = "none" /\ Outcome.err # "none" /\ Ended)
       => /\ call.trace = <<"FlagSuccess", "action", "FlagError">>
          /\ call.result = False

C5_Witness ==
  /\ call.pc = "returned"
  /\ InputOk
  /\ Resolved.err = "none"
  /\ Outcome.err = "ZeroDivisionError"

(***************************************************************************)
(* C6: on every invocation the resolved argument mapping is checked again  *)
(* against the action's parameter schema before the action callable is     *)
(* called; when a resolved value violates the schema the action callable   *)
(* is not called.                                                          *)
(***************************************************************************)
C6_ResolvedArgsRechecked ==
  NCalls(call) > 0
    => \A x \in ApiNames(get_flag_api(flag.action).args_api) :
         validate_parameter(Resolved.val[x],
                            ApiOf(get_flag_api(flag.action).args_api, x)).err = "none"

(***************************************************************************)
(* C7: filters are applied in list order, each on the previous filter's    *)
(* output and the context, and the value handed to validation is the last  *)
(* filter's output: for input 3, [addOne, double] gives 8 and              *)
(* [double, addOne] gives 7, and an empty list gives the input unchanged.  *)
(***************************************************************************)
C7_FiltersInOrder ==
  /\ call.pc = "filters"
       => /\ call.i \in 1..Len(flag.filters)
          /\ ApplyFilters(SubSeq(flag.filters, 1, call.i - 1), call.data_in,
                          call.accumulator) = [err |-> "none", val |-> call.data]
  /\ call.pc = "validate"
       => /\ Filtered = [err |-> "none", val |-> call.data]
          /\ flag.filters = <<>> => call.data = call.data_in
          /\ (flag.filters = <<"addOne", "double">> /\ call.data_in = I(3))
               => call.data = I(8)
          /\ (flag.filters = <<"double", "addOne">> /\ call.data_in = I(3))
               => call.data = I(7)
          /\ (flag.filters = <<"addStep", "double">> /\ call.data_in = I(3))
               => call.data = I(2 * (3 + call.accumulator[1].n))

C7_Witness ==
  /\ call.pc = "validate"
  /\ flag.filters = <<"addOne", "double">>
  /\ call.data_in = I(3)
  /\ call.data = I(8)


(***************************************************************************)
(* C8: construction is atomic.  Without an action and without a document   *)
(* it fails with InvalidElementConstructed; with an action unknown to the  *)
(* Action Directory it fails; with arguments the parameter validator       *)
(* rejects it fails; and a failed construction, from explicit arguments or *)
(* from a document, produces no Flag.                                      *)
(***************************************************************************)
C8_ConstructionAtomic ==
  last.path \in {"init", "xml"}
    => /\ (last.path = "init" /\ last.action = NoneAction)
            => last.err = "InvalidElementConstructed"
       /\ last.action \notin KnownActions => last.err # "none"
       /\ (/\ last.action \in KnownActions
           /\ \/ Keys(last.args) \ ApiNames(FlagApis[last.action].params) # {}
              \/ \E j \in DOMAIN FlagApis[last.action].params :
                   LET prm == FlagApis[last.action].params[j] IN
                   \/ /\ last.args[prm.name] = Missing
                      /\ prm.required
                      /\ prm.default = Missing
                   \/ last.args[prm.name] = S(-1))
            => last.err # "none"
       /\ last.err # "none" => flag = NoFlag
       /\ last.err = "none"
            => /\ flag.action = last.action
               /\ flag.action \in KnownActions
               /\ flag.uid # NoUid
               /\ validate_flag_parameters(FlagApis[flag.action].params, flag.args)
                    = [err |-> "none", val |-> flag.args]

C8_Witness ==
  /\ last.path = "xml"
  /\ last.action = "gt"
  /\ last.args["threshold"] = S(-1)
  /\ last.err # "none"
  /\ flag = NoFlag

(***************************************************************************)
(* C9: for both transport forms, reading back what was written gives a     *)
(* Flag with the same action, the same argument name/value pairs and the   *)
(* same filters in the same order, for empty and populated lists alike.    *)
(***************************************************************************)
C9_RoundTrip ==
  /\ last.path \in {"from_json", "from_xml"} => last.err = "none"
  /\ \A j \in 1..Len(copies) :
       /\ copies[j].self.action = flag.action
       /\ copies[j].self.args = flag.args
       /\ copies[j].self.filters = flag.filters

C9_Witness ==
  /\ doc.form = "xml"
  /\ Len(copies) = 1
  /\ Keys(flag.args) = {"threshold", "strict"}
  /\ flag.args["threshold"].k = "int"
  /\ flag.filters = <<"double", "addOne">>

(***************************************************************************)
(* C10: the uid is kept when the source document carries one and minted    *)
(* afresh when it carries none: two Flags read from the same document      *)
(* without a uid get two different uids, and a uid the document supplies   *)
(* is never replaced.                                                      *)
(***************************************************************************)
C10_UidKeptOrMinted ==
  \A j \in 1..Len(copies) :
    /\ copies[j].src # NoUid
         => /\ copies[j].self.uid = copies[j].src
            /\ copies[j].self.uid = flag.uid
    /\ copies[j].src = NoUid
         => /\ copies[j].self.uid # NoUid
            /\ copies[j].self.uid # flag.uid
            /\ \A h \in 1..Len(copies) : h # j => copies[h].self.uid # copies[j].self.uid

C10_Witness ==
  /\ doc.form = "json"
  /\ Len(copies) = 2
  /\ copies[1].src = NoUid
  /\ copies[2].src = NoUid
  /\ copies[1].self.uid # copies[2].self.uid


(***************************************************************************)
(* C11: invoke may be called repeatedly and concurrently on the same Flag: *)
(* however the statements of the calls interleave, each call ends with the *)
(* result and the events it would have when run alone on its own data_in   *)
(* and accumulator.                                                        *)
(***************************************************************************)
\* the call flag(data_in, accumulator) run from entry to its end, alone
RECURSIVE RunAlone(_, _)
RunAlone(f, c) == IF c.pc \in Running THEN RunAlone(f, Statement(f, c)) ELSE c

C11_ConcurrentAsAlone ==
  \A w \in Workers :
    calls[w].c.pc \in {"returned", "raised"}
      => calls[w].c = RunAlone(flag, Enter(flag, calls[w].c.data_in,
                                           calls[w].c.accumulator))

C11_Witness ==
  /\ \A w \in Workers : calls[w].c.pc = "returned" /\ calls[w].after = 0
  /\ calls[1].c.data_in # calls[2].c.data_in
  /\ calls[1].c.accumulator # calls[2].c.accumulator
  /\ calls[1].c.result # calls[2].c.result
  /\ calls[1].c.trace # calls[2].c.trace


(***************************************************************************)
(* C12: an invocation leaves the accumulator and the Flag as they were:    *)
(* no statement of a call changes the accumulator it was given or the      *)
(* Flag's uid, action, args or filters; merging the primary input into the *)
(* resolved arguments does not touch the Flag's stored args.               *)
(***************************************************************************)
C12_InvocationFrame ==
  [][call.pc \in Running
       => /\ flag' = flag
          /\ call'.accumulator = call.accumulator]_vars

C12_Witness ==
  /\ call.pc = "returned"
  /\ call.args["value"] # Missing
  /\ flag.args["value"] = Missing
  /\ flag.args["threshold"] = Ref(1)
  /\ call.args["threshold"] = call.accumulator[1]

(***************************************************************************)
(* C13: reference arguments are resolved against the accumulator of each   *)
(* invocation and never cached: when the referenced step's output differs  *)
(* between two invocations of the same Flag, the later one passes the new  *)
(* output to the action callable, and a literal argument is passed         *)
(* unchanged by both.                                                      *)
(***************************************************************************)
\* the Flag as its constructor built it
Built == FlagInit(last.action, last.args, flag.filters, flag.uid, flag.uid).self

C13_ResolvedPerInvocation ==
  \A w \in Workers :
    NCalls(calls[w].c) > 0
      => \A x \in Names \ {get_flag_api(Built.action).data_in_api.name} :
           calls[w].c.args[x] = IF Built.args[x].k = "ref"
                                  THEN calls[w].c.accumulator[Built.args[x].n]
                                  ELSE Built.args[x]

C13_Witness ==
  /\ calls[1].c.pc = "returned"
  /\ calls[2].c.pc = "returned"
  /\ calls[2].after >= 1
  /\ Built.args["threshold"] = Ref(1)
  /\ calls[1].c.accumulator[1] = I(5)
  /\ calls[2].c.accumulator[1] = I(1)
  /\ calls[1].c.args["threshold"] = I(5)
  /\ calls[2].c.args["threshold"] = I(1)
  /\ calls[1].c.args["strict"] = I(1)
  /\ calls[2].c.args["strict"] = I(1)

(***************************************************************************)
(* C14, as claimed: the steps of an invocation are: apply filters,         *)
(* validate, resolve, merge, emit the success event, call the action; the  *)
(* success event is emitted only after the merge has completed.            *)
(***************************************************************************)
C14_SuccessAfterMerge ==
  (\E j \in 1..Len(call.trace) : call.trace[j] = "FlagSuccess")
    => call.args[get_flag_api(flag.action).data_in_api.name] = call.data

(***************************************************************************)
(* C14, amended: the steps of an invocation are: apply filters, validate,  *)
(* resolve, emit the success event, merge, call the action; the success    *)
(* event is emitted before the merge starts, and a failure after           *)
(* resolution produces a failure event preceded by the success event.      *)
(***************************************************************************)
C14_SuccessBeforeMerge ==
  /\ call.pc = "validate"
       => call.trace = <<>> /\ call.data = Filtered.val /\ call.args = EmptyDict
  /\ call.pc = "dereference"
       => call.trace = <<>> /\ call.data = Validated.val /\ call.args = EmptyDict
  /\ call.pc = "FlagSuccess"
       => call.trace = <<>> /\ call.data = Validated.val /\ call.args = Resolved.val
  /\ call.pc = "update"
       => call.trace = <<"FlagSuccess">> /\ call.args = Resolved.val
  /\ call.pc = "action"
       => call.trace = <<"FlagSuccess">> /\ call.args = Merged
  /\ (call.pc = "returned" /\ call.args # EmptyDict)
       => call.trace \in {<<"FlagSuccess", "action">>,
                          <<"FlagSuccess", "action", "FlagError">>}

C14_Witness ==
  /\ call.pc = "update"
  /\ call.trace = <<"FlagSuccess">>
  /\ call.args["value"] = Missing
  /\ call.args["threshold"] # Missing
  /\ call.data # Missing

(***************************************************************************)
(* C15: an invocation that returns has emitted exactly [success],          *)
(* [failure] or [success, failure]: never two success events, two failure  *)
(* events or a failure before a success; and a success event is emitted    *)
(* only when input validation and argument resolution both succeeded.      *)
(***************************************************************************)
C15_EventShapes ==
  /\ Events(call) \in {<<>>, <<"FlagSuccess">>, <<"FlagError">>,
                       <<"FlagSuccess", "FlagError">>}
  /\ call.pc = "returned" => Events(call) # <<>>
  /\ (\E j \in 1..Len(call.trace) : call.trace[j] = "FlagSuccess")
       => InputOk /\ Resolved.err = "none"

C15_Witness ==
  /\ call.pc = "returned"
  /\ Events(call) = <<"FlagSuccess", "FlagError">>
  /\ call.exc = "TypeError"

(***************************************************************************)
(* C16: a failure event is emitted exactly when invoke returns through one *)
(* of its except clauses: an action callable that completes normally gives *)
(* no failure event, even when what it returns is False, and an except     *)
(* clause returning False has emitted exactly one failure event.           *)
(***************************************************************************)
ErrorPath == Validated.err # "none" \/ Resolved.err # "none" \/ Outcome.err # "none"

FlagErrors(c) == Len(SelectSeq(c.trace, LAMBDA e : e = "FlagError"))

C16_FailureIffErrorPath ==
  call.pc = "returned"
    => /\ ErrorPath <=> call.handler # "none"
       /\ ErrorPath => FlagErrors(call) = 1 /\ call.result = False
       /\ ~ErrorPath => FlagErrors(call) = 0 /\ call.result = Outcome.val

C16_Witness ==
  /\ call.pc = "returned"
  /\ ~ErrorPath
  /\ call.result = False
  /\ Events(call) = <<"FlagSuccess">>

====
